---- MODULE Spec2Model ----
(***************************************************************************)
(* zoogle: Google OAuth login for Express.                                 *)
(*                                                                         *)
(* The model covers the process-wide configuration (core/config.ts), the  *)
(* provider client (core/oauth.ts), the token issuer/verifier              *)
(* (utils/jwt.ts), the /callback route (adapters/routes.ts) and the        *)
(* requireAuth guard (middleware/auth.ts).                                 *)
(*                                                                         *)
(* JavaScript values are encoded as follows.  Scalars that the code only   *)
(* tests for truthiness are strings, with "undefined" and "null" standing  *)
(* for the two nullish values.  Objects are records; an object that may    *)
(* also be nullish carries a field kind.  A string built by concatenation  *)
(* is the sequence of its pieces.                                          *)
(***************************************************************************)
EXTENDS Integers, Sequences, FiniteSets, TLC

VARIABLES
  config,     \* the Config singleton: google, jwt, findOrCreateUser, onSuccess, onError
  cfgResult,  \* outcome of the last configure(): "none", "ok" or the field of the error thrown
  now,        \* the clock jsonwebtoken reads, in abstract ticks
  reqs,       \* the GET /callback requests, by request id
  guards,     \* the requireAuth invocations, by invocation id
  last,       \* the last direct call of jwtUtils, with its outcome
  cfgError,   \* what the last configure() threw to its caller, if anything
  logins      \* the GET /login requests, by request id

vars == <<config, cfgResult, now, reqs, guards, last, cfgError, logins>>

-----------------------------------------------------------------------------
(* Bounds *)

NReq == 2       \* callback requests in one behaviour
NGuard == 2     \* guard invocations in one behaviour
MaxTime == 2    \* the clock stops ticking here

NLogin == 2     \* login requests in one behaviour

Reqs == 1..NReq
Guards == 1..NGuard
Logins == 1..NLogin

-----------------------------------------------------------------------------
(* JavaScript scalars *)

UNDEF == "undefined"
NULL == "null"

\* !v is false: v is neither nullish nor the empty string
Truthy(v) == v \notin {UNDEF, NULL, ""}

\* { ...a, ...b }: every own property of b, present with whatever value, wins
Spread(a, b) ==
  [f \in (DOMAIN a) \cup (DOMAIN b) |-> IF f \in DOMAIN b THEN b[f] ELSE a[f]]

Has(o, f) == f \in DOMAIN o

-----------------------------------------------------------------------------
(* core/config.ts *)

InitialConfig ==
  [ google |-> [clientId |-> "", clientSecret |-> "", callbackURL |-> ""],
    jwt |-> [secret |-> "", expiresIn |-> "7d"],
    findOrCreateUser |-> NULL,
    onSuccess |-> NULL,
    onError |-> NULL ]

\* Config.set assigning each section given instead of spreading it over the
\* stored one: C27 does not hold of it
ConfigSetReplace(c, o) ==
  [ google |-> IF Has(o, "google") THEN o.google ELSE c.google,
    jwt |-> IF Has(o, "jwt") THEN o.jwt ELSE c.jwt,
    findOrCreateUser |->
      IF Has(o, "findOrCreateUser") /\ Truthy(o.findOrCreateUser)
      THEN o.findOrCreateUser ELSE c.findOrCreateUser,
    onSuccess |->
      IF Has(o, "onSuccess") /\ Truthy(o.onSuccess) THEN o.onSuccess ELSE c.onSuccess,
    onError |->
      IF Has(o, "onError") /\ Truthy(o.onError) THEN o.onError ELSE c.onError ]

\* Config.set: a section is spread over the stored one when the option is an
\* object; a callback replaces the stored one when the option is truthy.
ConfigSet(c, o) ==
  [ google |-> IF Has(o, "google") THEN Spread(c.google, o.google) ELSE c.google,
    jwt |-> IF Has(o, "jwt") THEN Spread(c.jwt, o.jwt) ELSE c.jwt,
    findOrCreateUser |->
      IF Has(o, "findOrCreateUser") /\ Truthy(o.findOrCreateUser)
      THEN o.findOrCreateUser ELSE c.findOrCreateUser,
    onSuccess |->
      IF Has(o, "onSuccess") /\ Truthy(o.onSuccess) THEN o.onSuccess ELSE c.onSuccess,
    onError |->
      IF Has(o, "onError") /\ Truthy(o.onError) THEN o.onError ELSE c.onError ]

\* the strings of the model that the advisory tests of validate() single out
MinSecretLength == 32

\* s.toLowerCase(), on the secrets of the model
ToLowerCase(s) == IF s = "Password" THEN "password" ELSE s

\* /YOUR_|CHANGE_ME|YOUR-CLIENT|your-/i.test(s), on the credentials of the model
PlaceholderPattern(s) == s \in {"YOUR_CLIENT_ID", "change_me"}

WeakSecrets == {"secret", "123456", "password", "changeme", "jwtsecret"}

\* url.startsWith('http://'), on the callback URLs of the model
StartsWithHttp(url) == url \in {"http://app/cb"}

\* the warnings validate() prints once the fatal checks have passed, when
\* process.env.NODE_ENV is nodeEnv
ConfigWarnings(c, nodeEnv) ==
  {w \in {"placeholder clientId"} : Truthy(c.google.clientId) /\ PlaceholderPattern(c.google.clientId)}
    \cup {w \in {"placeholder clientSecret"} :
            Truthy(c.google.clientSecret) /\ PlaceholderPattern(c.google.clientSecret)}
    \cup {w \in {"weak secret"} :
            ToLowerCase(IF Truthy(c.jwt.secret) THEN c.jwt.secret ELSE "") \in WeakSecrets}
    \cup {w \in {"short secret"} : Truthy(c.jwt.secret) /\ Len(c.jwt.secret) < MinSecretLength}
    \cup {w \in {"http callback"} :
            /\ nodeEnv = "production"
            /\ Truthy(c.google.callbackURL)
            /\ StartsWithHttp(c.google.callbackURL)}

\* validate() without the combined test: C17 does not hold of it
ConfigValidateNoCombined(c) ==
  IF ~Truthy(c.google.clientId) THEN "google.clientId"
  ELSE IF ~Truthy(c.google.clientSecret) THEN "google.clientSecret"
  ELSE IF ~Truthy(c.google.callbackURL) THEN "google.callbackURL"
  ELSE IF ~Truthy(c.jwt.secret) THEN "jwt.secret"
  ELSE IF ~Truthy(c.findOrCreateUser) THEN "findOrCreateUser"
  ELSE "ok"

\* validate() testing the secret before the callback URL: C18 does not hold of it
ConfigValidateSecretFirst(c) ==
  IF ~Truthy(c.google.clientId) /\ ~Truthy(c.google.clientSecret) /\ ~Truthy(c.jwt.secret)
  THEN "all"
  ELSE IF ~Truthy(c.google.clientId) THEN "google.clientId"
  ELSE IF ~Truthy(c.google.clientSecret) THEN "google.clientSecret"
  ELSE IF ~Truthy(c.jwt.secret) THEN "jwt.secret"
  ELSE IF ~Truthy(c.google.callbackURL) THEN "google.callbackURL"
  ELSE IF ~Truthy(c.findOrCreateUser) THEN "findOrCreateUser"
  ELSE "ok"

\* validate() throwing where it warns of a short secret: C19 does not hold of it
ConfigValidateStrict(c) ==
  IF ~Truthy(c.google.clientId) /\ ~Truthy(c.google.clientSecret) /\ ~Truthy(c.jwt.secret)
  THEN "all"
  ELSE IF ~Truthy(c.google.clientId) THEN "google.clientId"
  ELSE IF ~Truthy(c.google.clientSecret) THEN "google.clientSecret"
  ELSE IF ~Truthy(c.google.callbackURL) THEN "google.callbackURL"
  ELSE IF ~Truthy(c.jwt.secret) THEN "jwt.secret"
  ELSE IF ~Truthy(c.findOrCreateUser) THEN "findOrCreateUser"
  ELSE IF "short secret" \in ConfigWarnings(c, "production") THEN "jwt.secret"
  ELSE "ok"

\* Config.validate: the field of the ZoogleConfigError it throws, or "ok".
\* The advisory checks that follow the fatal ones only print warnings.
ConfigValidate(c) ==
  IF ~Truthy(c.google.clientId) /\ ~Truthy(c.google.clientSecret) /\ ~Truthy(c.jwt.secret)
  THEN "all"
  ELSE IF ~Truthy(c.google.clientId) THEN "google.clientId"
  ELSE IF ~Truthy(c.google.clientSecret) THEN "google.clientSecret"
  ELSE IF ~Truthy(c.google.callbackURL) THEN "google.callbackURL"
  ELSE IF ~Truthy(c.jwt.secret) THEN "jwt.secret"
  ELSE IF ~Truthy(c.findOrCreateUser) THEN "findOrCreateUser"
  ELSE "ok"

-----------------------------------------------------------------------------
(* types/errors.ts: the error classes *)

NoReason == [kind |-> "none"]

\* new Error(message), new TypeError(message), new ZoogleOAuthError(message)
Err(cls, message) == [cls |-> cls, message |-> message, originalError |-> NoReason]

\* new ZoogleDatabaseError(message, originalError)
ZoogleDatabaseError(message, originalError) ==
  [cls |-> "ZoogleDatabaseError", message |-> message, originalError |-> originalError]

\* new ZoogleAuthError(errorCode, message)
ZoogleAuthError(errorCode, message) ==
  [cls |-> "ZoogleAuthError", errorCode |-> errorCode, message |-> message,
   originalError |-> NoReason]

-----------------------------------------------------------------------------
(* jsonwebtoken, as utils/jwt.ts calls it.  A token is the record of what    *)
(* it was signed with and what it carries; a string that is no token at all  *)
(* is a record of kind "garbage", the empty string one of kind "empty".      *)
(* A body of type "string" is a payload that is no JSON under a header       *)
(* without typ, which verify returns as a string; a body of type "notjson"   *)
(* is such a payload under a header with typ "JWT", on which the decoding    *)
(* that precedes every other test throws JSON.parse's SyntaxError.           *)

\* ms(): the durations the model uses, in ticks; anything else is no timespan
ValidSpan(e) == e \in {"1h", "7d"}
Lifetime(e) == IF e = "1h" THEN 1 ELSE 2

\* jwt.sign(payload, secret, { expiresIn }) at time t
JwtSign(payload, secret, expiresIn, t) ==
  IF ~Truthy(secret)
  THEN [ok |-> FALSE, error |-> Err("Error", <<"secretOrPrivateKey must have a value">>)]
  ELSE IF ~ValidSpan(expiresIn)
  THEN [ok |-> FALSE,
        error |-> Err("Error", <<"\"expiresIn\" should be a number of seconds or string representing a timespan">>)]
  ELSE [ok |-> TRUE,
        token |-> [kind |-> "jwt", sig |-> secret,
                   body |-> [type |-> "object",
                             claims |-> Spread(payload, [iat |-> t, exp |-> t + Lifetime(expiresIn)])]]]

\* jwt.verify testing the expiry before the signature: C15 does not hold of it
JwtVerifyExpiryFirst(token, secret, t) ==
  IF token.kind = "empty"
  THEN [ok |-> FALSE, name |-> "JsonWebTokenError", message |-> "jwt must be provided"]
  ELSE IF token.kind = "garbage"
  THEN [ok |-> FALSE, name |-> "JsonWebTokenError", message |-> "jwt malformed"]
  ELSE IF token.body.type = "notjson"
  THEN [ok |-> FALSE, name |-> "SyntaxError", message |-> "Unexpected token h in JSON at position 0"]
  ELSE IF token.body.type = "object" /\ Has(token.body.claims, "exp") /\ t >= token.body.claims.exp
  THEN [ok |-> FALSE, name |-> "TokenExpiredError", message |-> "jwt expired"]
  ELSE IF ~Truthy(secret) \/ token.sig # secret
  THEN [ok |-> FALSE, name |-> "JsonWebTokenError", message |-> "invalid signature"]
  ELSE [ok |-> TRUE, decoded |-> token.body]

\* jwt.verify(token, secret) at time t: the decoded body, or the error's name and message
JwtVerify(token, secret, t) ==
  IF token.kind = "empty"
  THEN [ok |-> FALSE, name |-> "JsonWebTokenError", message |-> "jwt must be provided"]
  ELSE IF token.kind = "garbage"
  THEN [ok |-> FALSE, name |-> "JsonWebTokenError", message |-> "jwt malformed"]
  ELSE IF token.body.type = "notjson"
  THEN [ok |-> FALSE, name |-> "SyntaxError", message |-> "Unexpected token h in JSON at position 0"]
  ELSE IF ~Truthy(secret)
  THEN [ok |-> FALSE, name |-> "JsonWebTokenError", message |-> "secret or public key must be provided"]
  ELSE IF token.sig # secret
  THEN [ok |-> FALSE, name |-> "JsonWebTokenError", message |-> "invalid signature"]
  ELSE IF token.body.type = "string"
  THEN [ok |-> TRUE, decoded |-> token.body]
  ELSE IF Has(token.body.claims, "nbf") /\ token.body.claims.nbf > t
  THEN [ok |-> FALSE, name |-> "NotBeforeError", message |-> "jwt not active"]
  ELSE IF Has(token.body.claims, "exp") /\ t >= token.body.claims.exp
  THEN [ok |-> FALSE, name |-> "TokenExpiredError", message |-> "jwt expired"]
  ELSE [ok |-> TRUE, decoded |-> token.body]

-----------------------------------------------------------------------------
(* utils/jwt.ts *)

\* generateToken signing the user record as it is given: C30 does not hold of it
GenerateTokenWholeUser(user, c, t) ==
  IF user.kind = "undefined"
  THEN [ok |-> FALSE,
        error |-> Err("TypeError", <<"Cannot read properties of undefined (reading 'id')">>)]
  ELSE JwtSign([f \in DOMAIN user \ {"kind"} |-> user[f]], c.jwt.secret,
               IF Truthy(c.jwt.expiresIn) THEN c.jwt.expiresIn ELSE "7d", t)

\* generateToken handing config.jwt.expiresIn to jwt.sign as it is stored: C32
\* does not hold of it
GenerateTokenNoDefault(user, c, t) ==
  IF user.kind = "undefined"
  THEN [ok |-> FALSE,
        error |-> Err("TypeError", <<"Cannot read properties of undefined (reading 'id')">>)]
  ELSE JwtSign([id |-> user.id, email |-> user.email], c.jwt.secret, c.jwt.expiresIn, t)

\* JWTUtils.generateToken(user) under configuration c at time t
GenerateToken(user, c, t) ==
  IF user.kind = "undefined"
  THEN [ok |-> FALSE,
        error |-> Err("TypeError", <<"Cannot read properties of undefined (reading 'id')">>)]
  ELSE JwtSign([id |-> user.id, email |-> user.email], c.jwt.secret,
               IF Truthy(c.jwt.expiresIn) THEN c.jwt.expiresIn ELSE "7d", t)

\* the catch clause rethrowing as it is an error whose name it does not know:
\* C16 does not hold of it
VerifyTokenCatchKnownOnly(name, message) ==
  IF name = "TokenExpiredError"
  THEN ZoogleAuthError("token_expired", <<"Token has expired. Please log in again.">>)
  ELSE IF name \in {"JsonWebTokenError", "NotBeforeError"}
  THEN ZoogleAuthError("token_invalid", <<"Invalid token signature or format.">>)
  ELSE Err(name, <<message>>)

\* the catch clause of verifyToken: the library's error, by name
VerifyTokenCatch(name, message) ==
  IF name = "TokenExpiredError"
  THEN ZoogleAuthError("token_expired", <<"Token has expired. Please log in again.">>)
  ELSE IF name = "JsonWebTokenError"
  THEN ZoogleAuthError("token_invalid", <<"Invalid token signature or format.">>)
  ELSE IF name = "NotBeforeError"
  THEN ZoogleAuthError("token_invalid", <<"Token is not yet valid.">>)
  ELSE ZoogleAuthError("token_invalid", <<"Token verification failed: ", message>>)

\* verifyToken keeping a list of the tokens the guard has accepted and refusing
\* each of them from then on: C31 does not hold of it
VerifyTokenOnce(token, c, t) ==
  IF \E g \in DOMAIN guards :
       /\ guards[g].nextCalls = 1
       /\ \E i \in 1..Len(guards[g].header.text) :
            guards[g].header.text[i] = [t |-> "tok", tok |-> token]
  THEN [ok |-> FALSE,
        error |-> ZoogleAuthError("token_invalid", <<"Invalid token signature or format.">>)]
  ELSE LET v == JwtVerify(token, c.jwt.secret, t) IN
       IF ~v.ok THEN [ok |-> FALSE, error |-> VerifyTokenCatch(v.name, v.message)]
       ELSE IF v.decoded.type = "string"
       THEN [ok |-> FALSE,
             error |-> ZoogleAuthError("token_invalid", <<"Token verification failed: Invalid token format">>)]
       ELSE [ok |-> TRUE,
             user |-> Spread([id |-> v.decoded.claims.id, email |-> v.decoded.claims.email],
                             v.decoded.claims)]

\* JWTUtils.verifyToken(token) under configuration c at time t
VerifyToken(token, c, t) ==
  LET v == JwtVerify(token, c.jwt.secret, t) IN
  IF ~v.ok THEN [ok |-> FALSE, error |-> VerifyTokenCatch(v.name, v.message)]
  ELSE IF v.decoded.type = "string"
  THEN [ok |-> FALSE,
        error |-> ZoogleAuthError("token_invalid", <<"Token verification failed: Invalid token format">>)]
  ELSE [ok |-> TRUE,
        user |-> Spread([id |-> v.decoded.claims.id, email |-> v.decoded.claims.email],
                        v.decoded.claims)]

-----------------------------------------------------------------------------
(* core/oauth.ts.  An axios call ends in a 2xx response (kind "2xx", with    *)
(* its data), a response of another status (kind "http", with status, data   *)
(* and axios's message) or no response at all (kind "network").              *)

GOOGLE_AUTH_URL == "https://accounts.google.com/o/oauth2/v2/auth"

\* URLSearchParams' encoding of a value, on the strings of the model
UrlEncode(v) ==
  CASE v = "http://app/cb" -> "http%3A%2F%2Fapp%2Fcb"
    [] v = "https://app/cb" -> "https%3A%2F%2Fapp%2Fcb"
    [] v = "https://www.googleapis.com/auth/userinfo.profile https://www.googleapis.com/auth/userinfo.email"
         -> "https%3A%2F%2Fwww.googleapis.com%2Fauth%2Fuserinfo.profile+https%3A%2F%2Fwww.googleapis.com%2Fauth%2Fuserinfo.email"
    [] OTHER -> v

\* getAuthUrl with a state parameter drawn from the clock: C29 does not hold of it
GetAuthUrlStamped(c) ==
  [ base |-> GOOGLE_AUTH_URL,
    query |-> << <<"redirect_uri", UrlEncode(c.google.callbackURL)>>,
                 <<"client_id", UrlEncode(c.google.clientId)>>,
                 <<"state", now>> >> ]

\* OAuth.getAuthUrl(): the endpoint and the query string, pair by pair
GetAuthUrl(c) ==
  [ base |-> GOOGLE_AUTH_URL,
    query |-> << <<"redirect_uri", UrlEncode(c.google.callbackURL)>>,
                 <<"client_id", UrlEncode(c.google.clientId)>>,
                 <<"access_type", UrlEncode("offline")>>,
                 <<"response_type", UrlEncode("code")>>,
                 <<"prompt", UrlEncode("consent")>>,
                 <<"scope", UrlEncode("https://www.googleapis.com/auth/userinfo.profile https://www.googleapis.com/auth/userinfo.email")>> >> ]

\* error.response?.data?.error_description || error.message
TokenErrorDetail(o) ==
  IF o.kind = "http" /\ Has(o.data, "error_description") /\ Truthy(o.data.error_description)
  THEN o.data.error_description
  ELSE o.message

\* OAuth.getTokens, once axios.post has settled with o
GetTokens(o) ==
  IF o.kind = "2xx"
  THEN [ok |-> TRUE, value |-> o.data]
  ELSE [ok |-> FALSE,
        error |-> Err("Error", <<"Failed to fetch Google tokens: ", TokenErrorDetail(o)>>)]

\* tokens.access_token
AccessTokenOf(data) == IF Has(data, "access_token") THEN data.access_token ELSE UNDEF

\* OAuth.getUserInfo, once axios.get has settled with o
GetUserInfo(o) ==
  IF o.kind = "2xx"
  THEN [ok |-> TRUE,
        value |-> [id |-> o.data.id, email |-> o.data.email,
                   name |-> o.data.name, picture |-> o.data.picture]]
  ELSE [ok |-> FALSE,
        error |-> Err("Error", <<"Failed to fetch Google user info: ", o.message>>)]

-----------------------------------------------------------------------------
(* The world outside: what the embedder configures, what Google answers and  *)
(* what the embedder's callbacks do.                                         *)

\* values a callback option may hold: functions, and a string where a function belongs
Functions == {"function"}
Callable(v) == v \in Functions

GoogleOptions ==
  { [clientId |-> "cid", clientSecret |-> "cs", callbackURL |-> "http://app/cb"] }

JwtOptions ==
  { [secret |-> "s1"],
    [secret |-> "s1", expiresIn |-> UNDEF],       \* what loadFromEnv gives without JWT_EXPIRES_IN
    [secret |-> "s1", expiresIn |-> "1h"],
    [secret |-> "s1", expiresIn |-> "soon"] }     \* a string that is no timespan

\* the options of one configure() call: any of the sections, each callback
\* absent, a function, or (for findOrCreateUser) a string
Section(name, values) == {<<>>} \cup {name :> v : v \in values}

ConfigureOptions ==
  { g @@ j @@ f @@ s @@ e :
      g \in Section("google", GoogleOptions),
      j \in Section("jwt", JwtOptions),
      f \in Section("findOrCreateUser", Functions \cup {"not-a-function"}),
      s \in Section("onSuccess", Functions),
      e \in Section("onError", Functions) }

\* the configure() calls in the behaviours of the callback route: the
\* credentials and the secret are always given, the callbacks vary
FlowOptions == {o \in ConfigureOptions : Has(o, "google") /\ Has(o, "jwt")}

\* req.query.code
Codes == {UNDEF, "", "code1"}

\* how axios.post to the token endpoint settles
TokenResponses ==
  { [kind |-> "2xx", data |-> [access_token |-> "at1", token_type |-> "Bearer"]],
    [kind |-> "2xx", data |-> [token_type |-> "Bearer"]],
    [kind |-> "http", status |-> 400,
     data |-> [error |-> "invalid_grant", error_description |-> "Bad Request"],
     message |-> "Request failed with status code 400"],
    [kind |-> "network", message |-> "connect ECONNREFUSED"] }

\* how axios.get to the userinfo endpoint settles
UserinfoResponses ==
  { [kind |-> "2xx",
     data |-> [id |-> "g1", email |-> "a@x", name |-> "A", picture |-> "pic", locale |-> "en"]],
    [kind |-> "http", status |-> 401, data |-> [error |-> "invalid_token"],
     message |-> "Request failed with status code 401"] }

\* what findOrCreateUser may throw or reject with
Reasons ==
  { [kind |-> "undefined"],
    [kind |-> "error", name |-> "MongoError", message |-> "duplicate key error"],
    [kind |-> "error", name |-> "Error", message |-> "connection lost"] }

\* what findOrCreateUser may resolve to
Users ==
  { [kind |-> "undefined"],
    [kind |-> "object", id |-> "u1", email |-> "a@x", role |-> "admin"],
    [kind |-> "object", id |-> "u1", email |-> "a@x", role |-> "member"],
    [kind |-> "object", id |-> "u2", email |-> "b@x", role |-> "member"] }

\* how the call of findOrCreateUser ends before its promise is awaited
CallbackCalls == {[kind |-> "pending"]} \cup {[kind |-> "throws", reason |-> x] : x \in Reasons}

\* how the promise of findOrCreateUser settles
CallbackSettles ==
  {[kind |-> "resolves", user |-> u] : u \in Users}
    \cup {[kind |-> "rejects", reason |-> x] : x \in Reasons}

\* how a hook (onSuccess, onError) ends
HookEnds == {"returns", "throws"}

-----------------------------------------------------------------------------
(* adapters/routes.ts: GET /callback *)

NoUser == [kind |-> "none"]
NoToken == [kind |-> "none"]
NoError == [cls |-> "none"]

IdleRequest ==
  [ pc |-> "idle",          \* idle, exchange, profile, resolve (the three awaits), done
    code |-> UNDEF,         \* req.query.code
    calls |-> <<>>,         \* the calls made, in order
    failedAt |-> "none",    \* the call that failed
    thrown |-> NoReason,    \* what findOrCreateUser threw or rejected with
    accessToken |-> UNDEF,  \* tokens.access_token
    user |-> NoUser,        \* what findOrCreateUser resolved to
    token |-> NoToken,      \* what generateToken returned
    caught |-> NoError,     \* the error the catch clause received
    out |-> <<>>,           \* responses written and hooks invoked, in order
    escaped |-> FALSE ]     \* the handler's promise rejected

MissingCodeResponse ==
  [type |-> "response", status |-> 400,
   body |-> [success |-> FALSE, error_code |-> "missing_code",
             message |-> <<"No authorization code provided by Google">>]]

SuccessResponse(user, token) ==
  [type |-> "response", status |-> 200,
   body |-> [success |-> TRUE, token |-> token, user |-> user]]

\* the default error response, by the class of the error
DefaultErrorResponse(error) ==
  [type |-> "response", status |-> 500,
   body |->
     IF error.cls = "ZoogleOAuthError"
     THEN [success |-> FALSE, error_code |-> "oauth_failed",
           message |-> <<"Authentication with Google failed. Please try again or contact support.">>]
     ELSE IF error.cls = "ZoogleDatabaseError"
     THEN [success |-> FALSE, error_code |-> "database_error",
           message |-> <<"Failed to create your account. Please try again or contact support.">>]
     ELSE [success |-> FALSE, error_code |-> "unknown_error",
           message |-> <<"Authentication failed. Please try again or contact support.">>]]

\* The console logging of the catch clause throws when it reads
\* error.originalError.message of a ZoogleDatabaseError that wraps undefined.
LoggingThrows(error) ==
  error.cls = "ZoogleDatabaseError" /\ error.originalError.kind = "undefined"

\* The catch clause: request q fails at call `at` with `error` under
\* configuration c; onError, if called, ends as eEnd.
RouteCatch(q, at, error, c, eEnd) ==
  LET q1 == [q EXCEPT !.pc = "done", !.failedAt = at, !.caught = error] IN
  IF LoggingThrows(error)
  THEN [q1 EXCEPT !.escaped = TRUE]
  ELSE IF Truthy(c.onError)
  THEN [q1 EXCEPT !.out = Append(@, [type |-> "onError", error |-> error]),
                  !.escaped = (eEnd = "throws")]
  ELSE [q1 EXCEPT !.out = Append(@, DefaultErrorResponse(error))]

DatabaseErrorMessage ==
  <<"The findOrCreateUser function failed while saving the user to your database.">>

\* Step 3 up to the await: the guard on config.findOrCreateUser and its call,
\* which ends as f.
CallFindOrCreateUser(q, c, f, eEnd) ==
  IF ~Truthy(c.findOrCreateUser)
  THEN RouteCatch(q, "findOrCreateUser",
                  Err("Error", <<"findOrCreateUser function is not configured.">>), c, eEnd)
  ELSE IF ~Callable(c.findOrCreateUser)
  THEN RouteCatch(q, "findOrCreateUser",
                  ZoogleDatabaseError(DatabaseErrorMessage,
                    [kind |-> "error", name |-> "TypeError",
                     message |-> "config.findOrCreateUser is not a function"]),
                  c, eEnd)
  ELSE LET q1 == [q EXCEPT !.calls = Append(@, "findOrCreateUser")] IN
       IF f.kind = "throws"
       THEN RouteCatch([q1 EXCEPT !.thrown = f.reason], "findOrCreateUser",
                       ZoogleDatabaseError(DatabaseErrorMessage, f.reason), c, eEnd)
       ELSE [q1 EXCEPT !.pc = "resolve"]

\* Steps 4 and 5: generateToken, then onSuccess (which ends as sEnd) or the
\* default response.
Complete(q, user, c, t, sEnd, eEnd) ==
  LET q1 == [q EXCEPT !.user = user, !.calls = Append(@, "generateToken")]
      g == GenerateToken(user, c, t)
  IN
  IF ~g.ok
  THEN RouteCatch(q1, "generateToken", g.error, c, eEnd)
  ELSE LET q2 == [q1 EXCEPT !.token = g.token] IN
       IF Truthy(c.onSuccess)
       THEN LET q3 == [q2 EXCEPT !.out = Append(@, [type |-> "onSuccess", user |-> user,
                                                     token |-> g.token])]
            IN
            IF sEnd = "throws"
            THEN RouteCatch(q3, "onSuccess", Err("Error", <<"onSuccess failed">>), c, eEnd)
            ELSE [q3 EXCEPT !.pc = "done"]
       ELSE [q2 EXCEPT !.pc = "done", !.out = Append(@, SuccessResponse(user, g.token))]

\* configure() callable while requests are being served: C28 does not hold of it
AnyTime == TRUE

AllIdle ==
  /\ \A r \in DOMAIN reqs : reqs[r].pc = "idle"
  /\ \A g \in DOMAIN guards : guards[g].pc = "idle"

\* new ZoogleConfigError(field, message, hint)
ZoogleConfigError(field, message, hint) ==
  [cls |-> "ZoogleConfigError", field |-> field, message |-> message, hint |-> hint]

\* the message validate() gives the error of a field
ValidateMessage(field) ==
  CASE field = "all" -> <<"All required secrets are missing">>
    [] field = "findOrCreateUser" -> <<"Missing: findOrCreateUser function">>
    [] OTHER -> <<"Missing: ", field>>

\* the hint validate() gives the error of a field (its first sentence)
ValidateHint(field) ==
  CASE field = "all" -> "Did you forget to load your .env file?"
    [] field = "google.clientId" -> "You need a Client ID from Google Cloud Console."
    [] field = "google.clientSecret" -> "You need a Client Secret from Google Cloud Console."
    [] field = "google.callbackURL" -> "Provide a callback URL"
    [] field = "jwt.secret" -> "This is a long, random string used to sign user tokens."
    [] field = "findOrCreateUser" -> "Zoogle needs an async function"

\* what validate() throws on the configuration c, NoError when it returns
ValidateThrows(c) ==
  IF ConfigValidate(c) = "ok" THEN NoError
  ELSE ZoogleConfigError(ConfigValidate(c), ValidateMessage(ConfigValidate(c)),
                         ValidateHint(ConfigValidate(c)))

\* the catch clause of configure() wrapping every error: C23 does not hold of it
ConfigureCatchWrapAll(error) ==
  Err("Error", <<"[Zoogle] Configuration error: ">> \o error.message)

\* the catch clause of configure(): what it throws on
ConfigureCatch(error) ==
  IF error.cls = "ZoogleConfigError"
  THEN error
  ELSE Err("Error", <<"[Zoogle] Configuration error: ">> \o error.message)

\* what configure() throws once set() has left configuration c
ConfigureThrows(c) ==
  IF ValidateThrows(c) = NoError THEN NoError ELSE ConfigureCatch(ValidateThrows(c))

\* googleAuth.configure(options), before any request is served
Configure(o) ==
  /\ AllIdle
  /\ config' = ConfigSet(config, o)
  /\ cfgError' = ConfigureThrows(config')
  /\ cfgResult' = IF cfgError' = NoError THEN "ok"
                  ELSE IF cfgError'.cls = "ZoogleConfigError" THEN cfgError'.field
                  ELSE "Error"
  /\ UNCHANGED <<now, reqs, guards, last, logins>>

\* GET /login
IdleLogin ==
  [ pc |-> "idle",
    seen |-> InitialConfig.google,  \* config.google as the handler read it
    at |-> 0,                       \* the time of the request
    out |-> <<>> ]                  \* what was written to the response

\* GET /login storing the encoded callback URL back into the configuration:
\* C38 does not hold of it
LoginWriting(l) ==
  /\ logins[l].pc = "idle"
  /\ logins' = [logins EXCEPT ![l] =
                  [ pc |-> "done", seen |-> config.google, at |-> now,
                    out |-> <<[type |-> "redirect", url |-> GetAuthUrl(config)]>> ]]
  /\ config' = [config EXCEPT !.google.callbackURL = UrlEncode(@)]
  /\ UNCHANGED <<cfgResult, cfgError, now, reqs, guards, last>>

Login(l) ==
  /\ logins[l].pc = "idle"
  /\ logins' = [logins EXCEPT ![l] =
                  [ pc |-> "done", seen |-> config.google, at |-> now,
                    out |-> <<[type |-> "redirect", url |-> GetAuthUrl(config)]>> ]]
  /\ UNCHANGED <<config, cfgResult, cfgError, now, reqs, guards, last>>

\* CodeMissing with the test written as code === undefined, which lets the
\* empty code through: C4 does not hold of it
CodeMissingOnlyUndefined(code) == code = UNDEF

\* if (!code)
CodeMissing(code) == ~Truthy(code)

\* GET /callback arrives: the check of the code, then getTokens up to its await
CallbackStart(r, code) ==
  /\ reqs[r].pc = "idle"
  /\ reqs' = [reqs EXCEPT ![r] =
       IF CodeMissing(code)
       THEN [@ EXCEPT !.pc = "done", !.code = code, !.out = <<MissingCodeResponse>>]
       ELSE [@ EXCEPT !.pc = "exchange", !.code = code, !.calls = <<"getTokens">>]]
  /\ UNCHANGED <<config, cfgResult, now, guards, last, cfgError, logins>>

\* ExchangeSettles with a failed exchange tried once more: C7 does not hold of it
ExchangeSettlesRetry(r, o, eEnd) ==
  /\ reqs[r].pc = "exchange"
  /\ LET t == GetTokens(o) IN
     reqs' = [reqs EXCEPT ![r] =
       IF t.ok
       THEN [@ EXCEPT !.pc = "profile", !.accessToken = AccessTokenOf(t.value),
                      !.calls = Append(@, "getUserInfo")]
       ELSE IF Len(@.calls) < 2
       THEN [@ EXCEPT !.calls = Append(@, "getTokens")]
       ELSE RouteCatch(@, "getTokens", t.error, config, eEnd)]
  /\ UNCHANGED <<config, cfgResult, now, guards, last, cfgError, logins>>

\* axios.post settles with o: getTokens returns or throws, then getUserInfo up to its await
ExchangeSettles(r, o, eEnd) ==
  /\ reqs[r].pc = "exchange"
  /\ LET t == GetTokens(o) IN
     reqs' = [reqs EXCEPT ![r] =
       IF t.ok
       THEN [@ EXCEPT !.pc = "profile", !.accessToken = AccessTokenOf(t.value),
                      !.calls = Append(@, "getUserInfo")]
       ELSE RouteCatch(@, "getTokens", t.error, config, eEnd)]
  /\ UNCHANGED <<config, cfgResult, now, guards, last, cfgError, logins>>

\* ProfileSettles with findOrCreateUser taken from the configuration as it was
\* when the module was loaded: C37 does not hold of it
ProfileSettlesStale(r, o, f, eEnd) ==
  /\ reqs[r].pc = "profile"
  /\ LET p == GetUserInfo(o) IN
     reqs' = [reqs EXCEPT ![r] =
       IF p.ok
       THEN CallFindOrCreateUser(@, [config EXCEPT !.findOrCreateUser = InitialConfig.findOrCreateUser],
                                 f, eEnd)
       ELSE RouteCatch(@, "getUserInfo", p.error, config, eEnd)]
  /\ UNCHANGED <<config, cfgResult, now, guards, last, cfgError, logins>>

\* axios.get settles with o: getUserInfo returns or throws, then findOrCreateUser is called
ProfileSettles(r, o, f, eEnd) ==
  /\ reqs[r].pc = "profile"
  /\ LET p == GetUserInfo(o) IN
     reqs' = [reqs EXCEPT ![r] =
       IF p.ok
       THEN CallFindOrCreateUser(@, config, f, eEnd)
       ELSE RouteCatch(@, "getUserInfo", p.error, config, eEnd)]
  /\ UNCHANGED <<config, cfgResult, now, guards, last, cfgError, logins>>

\* ResolveSettles going on to sign a token for the Google profile when the
\* promise of findOrCreateUser rejects: C35 does not hold of it
ResolveSettlesAnyway(r, o, sEnd, eEnd) ==
  /\ reqs[r].pc = "resolve"
  /\ reqs' = [reqs EXCEPT ![r] =
       IF o.kind = "resolves"
       THEN Complete(@, o.user, config, now, sEnd, eEnd)
       ELSE Complete([@ EXCEPT !.thrown = o.reason],
                     [kind |-> "object", id |-> "g1", email |-> "a@x"],
                     config, now, sEnd, eEnd)]
  /\ UNCHANGED <<config, cfgResult, now, guards, last, cfgError, logins>>

\* the promise of findOrCreateUser settles with o: the rest of the handler
ResolveSettles(r, o, sEnd, eEnd) ==
  /\ reqs[r].pc = "resolve"
  /\ reqs' = [reqs EXCEPT ![r] =
       IF o.kind = "resolves"
       THEN Complete(@, o.user, config, now, sEnd, eEnd)
       ELSE RouteCatch([@ EXCEPT !.thrown = o.reason], "findOrCreateUser",
                       ZoogleDatabaseError(DatabaseErrorMessage, o.reason), config, eEnd)]
  /\ UNCHANGED <<config, cfgResult, now, guards, last, cfgError, logins>>

-----------------------------------------------------------------------------
(* middleware/auth.ts: requireAuth.  The Authorization header is the         *)
(* sequence of its pieces: a space, a word without spaces, or a token.       *)

SP == [t |-> "sp"]
Word(w) == [t |-> "word", w |-> w]
Tok(k) == [t |-> "tok", tok |-> k]

NoHeader == [present |-> FALSE, text |-> <<>>]
Header(text) == [present |-> TRUE, text |-> text]

\* Split cutting at runs of spaces, so that "Bearer  x" has two pieces: C12
\* does not hold of it
SplitOnRuns(text) ==
  LET parts[i \in 0..Len(text)] ==
        IF i = 0 THEN << <<>> >>
        ELSE IF text[i] = SP
        THEN IF i > 1 /\ text[i - 1] = SP THEN parts[i - 1] ELSE Append(parts[i - 1], <<>>)
        ELSE [parts[i - 1] EXCEPT ![Len(parts[i - 1])] = Append(@, text[i])]
  IN parts[Len(text)]

\* text.split(' '): the pieces between the spaces, empty pieces included
Split(text) ==
  LET parts[i \in 0..Len(text)] ==
        IF i = 0 THEN << <<>> >>
        ELSE IF text[i] = SP THEN Append(parts[i - 1], <<>>)
        ELSE [parts[i - 1] EXCEPT ![Len(parts[i - 1])] = Append(@, text[i])]
  IN parts[Len(text)]

\* parts[1] as verifyToken receives it
TokenString(part) ==
  IF part = <<>> THEN [kind |-> "empty"]
  ELSE IF Len(part) = 1 /\ part[1].t = "tok" THEN part[1].tok
  ELSE [kind |-> "garbage"]

IdleGuard ==
  [ pc |-> "idle",
    header |-> NoHeader,   \* req.headers.authorization
    at |-> 0,              \* the time of the request
    verifyError |-> NoError, \* the error verifyToken threw
    verifyCalls |-> 0,     \* calls of jwtUtils.verifyToken
    user |-> NoUser,       \* req.user
    nextCalls |-> 0,       \* calls of next()
    out |-> <<>> ]         \* responses written

\* Reject answering 403 with the code alone: C13 does not hold of it
RejectForbidden(g, error_code, message) ==
  [g EXCEPT !.out = Append(@, [type |-> "response", status |-> 403,
                               body |-> [error_code |-> error_code]])]

Reject(g, error_code, message) ==
  [g EXCEPT !.out = Append(@, [type |-> "response", status |-> 401,
                               body |-> [success |-> FALSE, error_code |-> error_code,
                                         message |-> message]])]

\* GuardCatch with every failure answered by the fallback: C9 does not hold of it
GuardCatchFallbackOnly(g, error) ==
  Reject(g, "token_invalid", <<"Token verification failed.">>)

\* the catch clause of requireAuth
GuardCatch(g, error) ==
  IF error.cls = "ZoogleAuthError"
  THEN Reject(g, error.errorCode, error.message)
  ELSE Reject(g, "token_invalid", <<"Token verification failed.">>)

\* requireAuth without the test of the header's presence, an absent header
\* going the way of an unparsable one: C11 does not hold of it
RequireAuthNoPresenceTest(header, c, t, nEnd) ==
  LET g0 == [IdleGuard EXCEPT !.pc = "done", !.header = header, !.at = t]
      parts == Split(header.text)
  IN
  IF Len(parts) # 2 \/ parts[1] # <<Word("Bearer")>>
  THEN Reject(g0, "token_malformed", <<"Invalid token format. Expected format: \"Bearer <token>\".">>)
  ELSE LET v == VerifyToken(TokenString(parts[2]), c, t) IN
       IF ~v.ok
       THEN GuardCatch([g0 EXCEPT !.verifyCalls = 1, !.verifyError = v.error], v.error)
       ELSE [g0 EXCEPT !.verifyCalls = 1, !.user = v.user, !.nextCalls = 1]

\* requireAuth(req, res, next) under configuration c at time t; next() ends as nEnd
RequireAuth(header, c, t, nEnd) ==
  LET g0 == [IdleGuard EXCEPT !.pc = "done", !.header = header, !.at = t]
      parts == Split(header.text)
  IN
  IF ~header.present \/ header.text = <<>>
  THEN Reject(g0, "token_missing",
              <<"No authorization token provided. Please include an Authorization header with \"Bearer <token>\".">>)
  ELSE IF Len(parts) # 2 \/ parts[1] # <<Word("Bearer")>>
  THEN Reject(g0, "token_malformed", <<"Invalid token format. Expected format: \"Bearer <token>\".">>)
  ELSE LET v == VerifyToken(TokenString(parts[2]), c, t)
           g1 == [g0 EXCEPT !.verifyCalls = 1]
       IN
       IF ~v.ok
       THEN GuardCatch([g1 EXCEPT !.verifyError = v.error], v.error)
       ELSE LET g2 == [g1 EXCEPT !.user = v.user, !.nextCalls = 1] IN
            IF nEnd = "throws"
            THEN GuardCatch(g2, Err("Error", <<"route handler failed">>))
            ELSE g2

\* the tokens a client may present at time t: issued by generateToken at some
\* earlier time under some secret and lifetime, signed elsewhere with the
\* application's secret (a notBefore claim, a string payload), carrying a
\* payload that cannot be decoded, or no token at all
SigningConfig(secret, expiresIn) == [jwt |-> [secret |-> secret, expiresIn |-> expiresIn]]

TokenUsers == {u \in Users : u.kind = "object" /\ u.role = "member"}

IssuedTokens(t) ==
  { GenerateToken(u, SigningConfig("s1", "1h"), t0).token : u \in TokenUsers, t0 \in 0..t }
    \cup { GenerateToken(u, SigningConfig("s2", "1h"), 0).token : u \in {x \in TokenUsers : x.id = "u1"} }

ForeignTokens ==
  { [kind |-> "garbage"],
    [kind |-> "jwt", sig |-> "s1",
     body |-> [type |-> "object",
               claims |-> [id |-> "u1", email |-> "a@x", iat |-> 0, nbf |-> MaxTime + 2]]],
    [kind |-> "jwt", sig |-> "s1", body |-> [type |-> "string", text |-> "hello"]],
    [kind |-> "jwt", sig |-> "s2", body |-> [type |-> "notjson", text |-> "hello"]] }

Headers(t) ==
  { NoHeader,
    Header(<<>>),
    Header(<<Word("Basic"), SP, Word("xyz")>>),
    Header(<<Word("bearer"), SP, Word("x")>>),
    Header(<<Word("Bearer")>>),
    Header(<<Word("Bearer"), SP>>),
    Header(<<Word("Bearer"), SP, Word("a"), SP, Word("b")>>) }
    \cup { Header(<<Word("Bearer"), SP, Tok(k)>>) : k \in IssuedTokens(t) \cup ForeignTokens }
    \cup { Header(<<Word("Bearer"), SP, SP, Tok(k)>>) : k \in {[kind |-> "garbage"]} }

\* the embedder's configure() calls in the behaviours of the guard
GuardOptions ==
  { o \in ConfigureOptions :
      /\ DOMAIN o = {"google", "jwt", "findOrCreateUser"}
      /\ ~Has(o.jwt, "expiresIn")
      /\ Callable(o.findOrCreateUser) }

\* a protected route is requested
GuardRequest(g, header, nEnd) ==
  /\ guards[g].pc = "idle"
  /\ guards' = [guards EXCEPT ![g] = RequireAuth(header, config, now, nEnd)]
  /\ UNCHANGED <<config, cfgResult, now, reqs, last, cfgError, logins>>

\* time passes
Tick ==
  /\ now < MaxTime
  /\ now' = now + 1
  /\ UNCHANGED <<config, cfgResult, reqs, guards, last, cfgError, logins>>

-----------------------------------------------------------------------------
(* configure() called with credentials, secrets and callback of every kind *)

LongSecret == "this-is-a-long-secret-key-minimum-32-characters-long"

ValidateGoogleOptions ==
  [ clientId : {"", "cid", "YOUR_CLIENT_ID"},
    clientSecret : {"", "cs", "change_me"},
    callbackURL : {"", "http://app/cb", "https://app/cb"} ]

ValidateJwtOptions == [secret : {"", "s1", "Password", LongSecret}]

ValidateOptions ==
  { g @@ j @@ f :
      g \in Section("google", ValidateGoogleOptions),
      j \in Section("jwt", ValidateJwtOptions),
      f \in Section("findOrCreateUser", Functions \cup {UNDEF, "not-a-function"}) }

-----------------------------------------------------------------------------
(* utils/jwt.ts called directly, as the route and the guard call it *)

NoCall == [op |-> "none"]

\* the configure() calls in the behaviours of the token utilities: two
\* secrets, and the lifetimes of JwtOptions
TokenOptions ==
  { [google |-> g, jwt |-> j, findOrCreateUser |-> f] :
      g \in GoogleOptions,
      j \in JwtOptions \cup {[secret |-> "s2"], [secret |-> "s2", expiresIn |-> "1h"],
                           [secret |-> "s2", expiresIn |-> ""]},
      f \in Functions }

\* the strings verifyToken may be given at time t
PresentedTokens(t) == IssuedTokens(t) \cup ForeignTokens \cup {[kind |-> "empty"]}

\* const t = jwtUtils.generateToken(user); jwtUtils.verifyToken(t), with no
\* tick of the clock between the two
IssueThenVerify(u) ==
  /\ last' = LET issued == GenerateToken(u, config, now) IN
             [ op |-> "issue", user |-> u, at |-> now, secret |-> config.jwt.secret,
               validated |-> cfgResult = "ok", issued |-> issued,
               verified |-> IF issued.ok THEN VerifyToken(issued.token, config, now)
                            ELSE [ok |-> FALSE, error |-> issued.error] ]
  /\ UNCHANGED <<config, cfgResult, now, reqs, guards, cfgError, logins>>

\* jwtUtils.verifyToken(k)
VerifyCall(k) ==
  /\ last' = [ op |-> "verify", token |-> k, at |-> now, secret |-> config.jwt.secret,
               verified |-> VerifyToken(k, config, now) ]
  /\ UNCHANGED <<config, cfgResult, now, reqs, guards, cfgError, logins>>

-----------------------------------------------------------------------------

Init ==
  /\ config = InitialConfig
  /\ cfgResult = "none"
  /\ now = 0
  /\ reqs = [r \in Reqs |-> IdleRequest]
  /\ guards = [g \in Guards |-> IdleGuard]
  /\ last = NoCall
  /\ cfgError = NoError
  /\ logins = [l \in Logins |-> IdleLogin]

NextFlow ==
  \/ \E o \in FlowOptions : Configure(o)
  \/ \E r \in Reqs, code \in Codes : CallbackStart(r, code)
  \/ \E r \in Reqs, o \in TokenResponses, eEnd \in HookEnds : ExchangeSettles(r, o, eEnd)
  \/ \E r \in Reqs, o \in UserinfoResponses, f \in CallbackCalls, eEnd \in HookEnds :
       ProfileSettles(r, o, f, eEnd)
  \/ \E r \in Reqs, o \in CallbackSettles, sEnd \in HookEnds, eEnd \in HookEnds :
       ResolveSettles(r, o, sEnd, eEnd)

SpecFlow == Init /\ [][NextFlow]_vars

NextGuard ==
  \/ \E o \in GuardOptions : Configure(o)
  \/ Tick
  \/ \E g \in Guards, h \in Headers(now), nEnd \in HookEnds : GuardRequest(g, h, nEnd)

SpecGuard == Init /\ [][NextGuard]_vars

NextConfig == \E o \in ValidateOptions : Configure(o)

\* the configure() calls in the behaviours of the login route
LoginOptions ==
  { o \in ValidateOptions :
      /\ DOMAIN o = {"google", "jwt", "findOrCreateUser"}
      /\ o.google.clientId \in {"", "cid"}
      /\ o.google.clientSecret = "cs"
      /\ o.google.callbackURL \in {"", "http://app/cb"}
      /\ o.jwt.secret = LongSecret }

NextLogin ==
  \/ \E o \in LoginOptions : Configure(o)
  \/ Tick
  \/ \E l \in Logins : Login(l)

SpecLogin == Init /\ [][NextLogin]_vars

-----------------------------------------------------------------------------
(* config.set() called on the stored configuration, call after call *)

\* the options of the set() calls: sections with some or all of their fields,
\* callbacks absent, nullish, or one of two values
SetOptions ==
  { g @@ j @@ f @@ s @@ e :
      g \in Section("google", { [clientId |-> "cid"],
                                [clientId |-> "cid", clientSecret |-> "cs",
                                 callbackURL |-> "http://app/cb"] }),
      j \in Section("jwt", { [secret |-> "s1"], [expiresIn |-> UNDEF] }),
      f \in Section("findOrCreateUser", Functions \cup {UNDEF, "not-a-function"}),
      s \in Section("onSuccess", Functions \cup {NULL}),
      e \in Section("onError", Functions) }

\* config.set(o)
SetCall(o) ==
  /\ config' = ConfigSet(config, o)
  /\ last' = [op |-> "set", options |-> o, before |-> config]
  /\ UNCHANGED <<cfgResult, cfgError, now, reqs, guards, logins>>

NextSet == \E o \in SetOptions : SetCall(o)

SpecSet == Init /\ [][NextSet]_vars

-----------------------------------------------------------------------------
(* The three entry points served together, after configure() *)

\* the configure() calls before the application serves: complete options,
\* with or without an error hook
ServeOptions ==
  { o \in FlowOptions :
      /\ o.jwt = [secret |-> "s1"]
      /\ Has(o, "findOrCreateUser") /\ Callable(o.findOrCreateUser)
      /\ ~Has(o, "onSuccess") }

ServeCodes == {UNDEF, "code1"}

ServeTokenResponses == {o \in TokenResponses : o.kind = "network" \/ Has(o.data, "access_token")}

ServeSettles ==
  { o \in CallbackSettles :
      \/ o.kind = "resolves" /\ o.user.kind = "object" /\ o.user.id = "u2"
      \/ o.kind = "rejects" /\ o.reason.kind = "error" /\ o.reason.name = "MongoError" }

ServeHeaders ==
  { NoHeader }
    \cup { Header(<<Word("Bearer"), SP, Tok(GenerateToken(u, SigningConfig("s1", "1h"), 0).token)>>) :
             u \in {x \in TokenUsers : x.id = "u1"} }

\* configure() is called before the application listens
NothingServed ==
  /\ AllIdle
  /\ \A l \in Logins : logins[l].pc = "idle"

NextServe ==
  \/ \E o \in ServeOptions : NothingServed /\ Configure(o)
  \/ \E l \in Logins : Login(l)
  \/ \E r \in Reqs, code \in ServeCodes : CallbackStart(r, code)
  \/ \E r \in Reqs, o \in ServeTokenResponses : ExchangeSettles(r, o, "returns")
  \/ \E r \in Reqs, o \in UserinfoResponses : ProfileSettles(r, o, [kind |-> "pending"], "returns")
  \/ \E r \in Reqs, o \in ServeSettles : ResolveSettles(r, o, "returns", "returns")
  \/ \E g \in Guards, h \in ServeHeaders : GuardRequest(g, h, "returns")

SpecServe == Init /\ [][NextServe]_vars

-----------------------------------------------------------------------------
(* configure() called again while callback requests are between their awaits *)

\* the configure() calls: the complete options of start-up, and a later call
\* that changes the secret, findOrCreateUser and the error hook
ReconfigureOptions ==
  { [google |-> [clientId |-> "cid", clientSecret |-> "cs", callbackURL |-> "http://app/cb"],
     jwt |-> [secret |-> "s1"], findOrCreateUser |-> "function"],
    [jwt |-> [secret |-> "s2"], findOrCreateUser |-> "not-a-function", onError |-> "function"] }

\* the requests that are between their first and their last step
InFlight == {r \in Reqs : reqs[r].pc \notin {"idle", "done"}}

\* googleAuth.configure(options) at any moment; `last` keeps the requests
\* that were in flight during some call
Reconfigure(o) ==
  /\ config' = ConfigSet(config, o)
  /\ cfgError' = ConfigureThrows(config')
  /\ cfgResult' = IF cfgError' = NoError THEN "ok"
                  ELSE IF cfgError'.cls = "ZoogleConfigError" THEN cfgError'.field
                  ELSE "Error"
  /\ last' = [ op |-> "configure",
               touched |-> (IF last.op = "configure" THEN last.touched ELSE {}) \cup InFlight ]
  /\ UNCHANGED <<now, reqs, guards, logins>>

NextReconfigure ==
  \/ \E o \in ReconfigureOptions : Reconfigure(o)
  \/ \E r \in Reqs, code \in ServeCodes : CallbackStart(r, code)
  \/ \E r \in Reqs, o \in ServeTokenResponses : ExchangeSettles(r, o, "returns")
  \/ \E r \in Reqs, o \in UserinfoResponses : ProfileSettles(r, o, [kind |-> "pending"], "returns")
  \/ \E r \in Reqs, o \in ServeSettles : ResolveSettles(r, o, "returns", "returns")

SpecReconfigure == Init /\ [][NextReconfigure]_vars

SpecConfig == Init /\ [][NextConfig]_vars

NextToken ==
  \/ \E o \in TokenOptions : Configure(o)
  \/ Tick
  \/ \E u \in Users : IssueThenVerify(u)
  \/ \E k \in PresentedTokens(now) : VerifyCall(k)

SpecToken == Init /\ [][NextToken]_vars

-----------------------------------------------------------------------------
(* Vocabulary of the claims *)

Range(seq) == {seq[i] : i \in 1..Len(seq)}

IsPrefix(a, b) == Len(a) <= Len(b) /\ \A i \in 1..Len(a) : a[i] = b[i]

\* e is a response of the given status whose body is exactly
\* {success: false, error_code, message} with the given code
IsErrorResponse(e, status, code) ==
  /\ e.type = "response"
  /\ e.status = status
  /\ DOMAIN e.body = {"success", "error_code", "message"}
  /\ e.body.success = FALSE
  /\ e.body.error_code = code

IsHook(e) == e.type \in {"onSuccess", "onError"}

\* the external calls of one callback request, in the order of the handler
StepOrder == <<"getTokens", "getUserInfo", "findOrCreateUser", "generateToken">>

StepIndex(name) == CHOOSE i \in 1..Len(StepOrder) : StepOrder[i] = name

\* the header is "Bearer <something without spaces>"
WellFormed(header) ==
  /\ header.present
  /\ Len(Split(header.text)) = 2
  /\ Split(header.text)[1] = <<Word("Bearer")>>

BearerToken(header) == TokenString(Split(header.text)[2])

-----------------------------------------------------------------------------
(* Claims about GET /callback, checked under SpecFlow *)

\* C1: with a code and no error hook, a failed token exchange or profile fetch
\* is answered 500 {success:false, error_code:"oauth_failed", message}, and
\* neither findOrCreateUser nor generateToken is reached.
C1_OAuthFailed ==
  \A r \in Reqs :
    LET q == reqs[r] IN
    (q.pc = "done" /\ q.failedAt \in {"getTokens", "getUserInfo"} /\ ~Truthy(config.onError))
      => /\ Len(q.out) = 1
         /\ IsErrorResponse(q.out[1], 500, "oauth_failed")
         /\ "findOrCreateUser" \notin Range(q.calls)
         /\ q.token = NoToken

\* C2: a throw or rejection of findOrCreateUser reaches the catch clause as a
\* ZoogleDatabaseError whose originalError is what the callback threw; with no
\* error hook the answer is 500 database_error; no token is issued.
C2_DatabaseError ==
  \A r \in Reqs :
    LET q == reqs[r] IN
    (q.pc = "done" /\ q.failedAt = "findOrCreateUser" /\ "findOrCreateUser" \in Range(q.calls))
      => /\ q.caught.cls = "ZoogleDatabaseError"
         /\ q.caught.originalError = q.thrown
         /\ ~Truthy(config.onError)
              => Len(q.out) = 1 /\ IsErrorResponse(q.out[1], 500, "database_error")
         /\ q.token = NoToken

\* C3: when the exchange, the profile fetch and findOrCreateUser have succeeded
\* and no success hook is configured, the answer is 200 {success:true, token,
\* user} with the user findOrCreateUser returned and token generateToken(user).
\* Stated for the requests served under a configuration that passed validate()
\* and whose callback returned a user object.
C3_SuccessResponse ==
  \A r \in Reqs :
    LET q == reqs[r] IN
    (/\ q.pc = "done" /\ cfgResult = "ok"
     /\ q.user # NoUser /\ q.user.kind = "object"
     /\ ~Truthy(config.onSuccess))
      => /\ Len(q.out) = 1
         /\ q.out[1].type = "response"
         /\ q.out[1].status = 200
         /\ DOMAIN q.out[1].body = {"success", "token", "user"}
         /\ q.out[1].body.success = TRUE
         /\ q.out[1].body.user = q.user
         /\ q.out[1].body.token = q.token
         /\ GenerateToken(q.user, config, now) = [ok |-> TRUE, token |-> q.token]

\* C4: a request whose code is absent or empty is answered 400
\* {success:false, error_code:"missing_code", message} at once: no call is
\* made, no token is issued and no hook is invoked, whatever is configured.
C4_MissingCode ==
  \A r \in Reqs :
    LET q == reqs[r] IN
    (q.pc # "idle" /\ q.code \in {UNDEF, ""})
      => /\ q.pc = "done"
         /\ Len(q.out) = 1
         /\ IsErrorResponse(q.out[1], 400, "missing_code")
         /\ q.calls = <<>>
         /\ q.user = NoUser
         /\ q.token = NoToken
         /\ ~q.escaped

C4_Witness ==
  \E r \in Reqs :
    /\ reqs[r].pc = "done"
    /\ reqs[r].code = ""
    /\ reqs[r].out = <<MissingCodeResponse>>
    /\ Truthy(config.onSuccess)
    /\ Truthy(config.onError)

\* C5: once a hook has been invoked for a request, nothing further is invoked
\* or written for it (also when the success hook throws), so at most one hook
\* is invoked per request.
C5_TerminalAtFirstHook ==
  \A r \in Reqs :
    \A i \in 1..Len(reqs[r].out) : IsHook(reqs[r].out[i]) => i = Len(reqs[r].out)

\* C6: the default 200 response is written exactly when the flow succeeded and
\* no success hook is configured, the hook being called with (user, token)
\* otherwise; the default 500 response is written exactly when a step after the
\* code check failed and no error hook is configured, the hook being called
\* with the caught error, and nothing written, otherwise.  Stated for the
\* requests whose callback did not fail with undefined, which is the case of C2.
C6_HookOrDefault ==
  \A r \in Reqs :
    LET q == reqs[r]
        succeeded == q.token # NoToken
        stepFailed == q.failedAt \in Range(StepOrder)
        has200 == \E i \in 1..Len(q.out) : q.out[i] = SuccessResponse(q.user, q.token)
        has500 == \E i \in 1..Len(q.out) : q.out[i].type = "response" /\ q.out[i].status = 500
    IN
    (q.pc = "done" /\ Truthy(q.code) /\ q.thrown.kind # "undefined")
      => /\ has200 <=> (succeeded /\ ~Truthy(config.onSuccess))
         /\ (succeeded /\ Truthy(config.onSuccess))
              => [type |-> "onSuccess", user |-> q.user, token |-> q.token] \in Range(q.out)
         /\ has500 <=> (stepFailed /\ ~Truthy(config.onError))
         /\ (stepFailed /\ Truthy(config.onError))
              => q.out = <<[type |-> "onError", error |-> q.caught]>>

\* C7: the calls of a request are a prefix of token exchange, profile fetch,
\* findOrCreateUser, token issuance: each at most once, in that order; a
\* failed step ends the request with no later step made.
C7_CallsArePrefix ==
  \A r \in Reqs :
    LET q == reqs[r] IN
    /\ IsPrefix(q.calls, StepOrder)
    /\ q.failedAt \in Range(StepOrder)
         => q.pc = "done" /\ Len(q.calls) <= StepIndex(q.failedAt)

C7_Witness ==
  \E r1, r2 \in Reqs :
    /\ reqs[r1].pc = "done" /\ reqs[r1].calls = StepOrder /\ reqs[r1].failedAt = "none"
    /\ reqs[r2].pc = "done" /\ reqs[r2].failedAt = "getUserInfo"
    /\ reqs[r2].calls = <<"getTokens", "getUserInfo">>

-----------------------------------------------------------------------------
(* Claims about the guard, checked under SpecGuard *)

\* the error bodies written for the callback requests and by the guard
CallbackErrorBodies ==
  UNION { {e.body : e \in {x \in Range(reqs[r].out) : x.type = "response" /\ x.status # 200}} :
          r \in Reqs }

\* the bodies the guard wrote without having called next
GuardErrorBodies ==
  UNION { {e.body : e \in Range(guards[g].out)} : g \in {h \in Guards : guards[h].nextCalls = 0} }

\* the messages of the signing library that verifyToken caught for the guards
LibraryVerify(g) == JwtVerify(BearerToken(guards[g].header), config.jwt.secret, guards[g].at)

LibraryMessages ==
  { LibraryVerify(g).message :
      g \in {h \in Guards : guards[h].verifyCalls = 1 /\ ~LibraryVerify(h).ok} }

\* C8: a default error response depends only on the classification of the
\* error: two error bodies with the same error_code are the same body, and no
\* body of the guard carries a message of the signing library.
C8_BodyDependsOnCodeOnly ==
  /\ \A S \in {CallbackErrorBodies, GuardErrorBodies} :
       \A a, b \in S : a.error_code = b.error_code => a = b
  /\ \A b \in GuardErrorBodies : \A m \in LibraryMessages : m \notin Range(b.message)

\* C9: on "Bearer <token>" whose verification fails the guard answers 401 with
\* the error_code of the error verifyToken raised (token_expired for an expired
\* token, token_invalid for one signed with another secret), does not call
\* next and attaches no identity.
C9_GuardRejectsWithVerifyCode ==
  \A g \in Guards :
    LET q == guards[g] IN
    (q.pc = "done" /\ WellFormed(q.header))
      => LET k == BearerToken(q.header)
             v == VerifyToken(k, config, q.at)
         IN
         ~v.ok
           => /\ Len(q.out) = 1
              /\ IsErrorResponse(q.out[1], 401, v.error.errorCode)
              /\ q.nextCalls = 0
              /\ q.user = NoUser
              /\ (k.kind = "jwt" /\ k.sig # config.jwt.secret)
                   => q.out[1].body.error_code = "token_invalid"
              /\ (/\ k.kind = "jwt" /\ k.sig = config.jwt.secret
                  /\ k.body.type = "object" /\ Has(k.body.claims, "exp")
                  /\ k.body.claims.exp <= q.at)
                   => q.out[1].body.error_code = "token_expired"

C9_Witness ==
  \E g1, g2 \in Guards :
    /\ guards[g1].pc = "done" /\ WellFormed(guards[g1].header)
    /\ BearerToken(guards[g1].header).kind = "jwt"
    /\ BearerToken(guards[g1].header).sig = config.jwt.secret
    /\ Len(guards[g1].out) = 1 /\ guards[g1].out[1].body.error_code = "token_expired"
    /\ guards[g2].pc = "done" /\ WellFormed(guards[g2].header)
    /\ BearerToken(guards[g2].header).kind = "jwt"
    /\ BearerToken(guards[g2].header).sig # config.jwt.secret
    /\ Len(guards[g2].out) = 1 /\ guards[g2].out[1].body.error_code = "token_invalid"

\* C10: on "Bearer <t>" with t issued by generateToken under the current
\* secret and not yet expired, the guard attaches the identity of the signed
\* claims, calls next exactly once and writes no response.
C10_GuardAcceptsFreshToken ==
  \A g \in Guards :
    LET q == guards[g] IN
    (q.pc = "done" /\ WellFormed(q.header))
      => LET k == BearerToken(q.header) IN
         (/\ k \in IssuedTokens(q.at)
          /\ k.sig = config.jwt.secret
          /\ q.at < k.body.claims.exp)
           => /\ q.user # NoUser
              /\ q.user.id = k.body.claims.id
              /\ q.user.email = k.body.claims.email
              /\ q.nextCalls = 1
              /\ q.out = <<>>

\* the codes of the guard's rejections
GuardCodes == {"token_missing", "token_malformed", "token_expired", "token_invalid"}

\* C11: a request without Authorization header is answered 401 token_missing;
\* neither verifyToken nor next is called.
C11_MissingHeader ==
  \A g \in Guards :
    LET q == guards[g] IN
    (q.pc = "done" /\ ~q.header.present)
      => /\ Len(q.out) = 1
         /\ IsErrorResponse(q.out[1], 401, "token_missing")
         /\ q.verifyCalls = 0
         /\ q.nextCalls = 0

C11_Witness ==
  \E g \in Guards :
    /\ guards[g].pc = "done" /\ guards[g].header = NoHeader
    /\ Len(guards[g].out) = 1 /\ guards[g].out[1].body.error_code = "token_missing"

\* the text is "Bearer", one space, and at most one more piece without spaces
BearerShape(text) ==
  /\ Len(text) \in {2, 3}
  /\ text[1] = Word("Bearer")
  /\ text[2] = SP
  /\ Len(text) = 3 => text[3] # SP

\* what C12 says of one guarded request
MalformedOrVerified(q) ==
  /\ ~BearerShape(q.header.text)
       => /\ Len(q.out) = 1
          /\ IsErrorResponse(q.out[1], 401, "token_malformed")
          /\ q.verifyCalls = 0
  /\ BearerShape(q.header.text) => q.verifyCalls = 1

\* C12 as stated: a header that is present and is not "Bearer" and one more
\* piece between single spaces is answered 401 token_malformed without a call
\* of verifyToken; a header of that shape is passed to verifyToken.
C12_MalformedHeader ==
  \A g \in Guards :
    (guards[g].pc = "done" /\ guards[g].header.present) => MalformedOrVerified(guards[g])

\* C12, amended: the same of every header that is present and not the empty
\* string; the empty header is answered as a missing one.
C12_MalformedNonEmptyHeader ==
  \A g \in Guards :
    LET q == guards[g] IN
    /\ (q.pc = "done" /\ q.header.present /\ q.header.text # <<>>) => MalformedOrVerified(q)
    /\ (q.pc = "done" /\ q.header = Header(<<>>))
         => /\ Len(q.out) = 1 /\ IsErrorResponse(q.out[1], 401, "token_missing")
            /\ q.verifyCalls = 0

C12_Witness ==
  \E g1, g2 \in Guards :
    /\ guards[g1].pc = "done"
    /\ guards[g1].header = Header(<<Word("Bearer"), SP, SP, Tok([kind |-> "garbage"])>>)
    /\ Len(guards[g1].out) = 1 /\ guards[g1].out[1].body.error_code = "token_malformed"
    /\ guards[g2].pc = "done" /\ BearerShape(guards[g2].header.text) /\ guards[g2].verifyCalls = 1

\* C13: every response of the guard has status 401 and a body of exactly
\* {success: false, error_code, message} with one of the four codes.
C13_UniformRejection ==
  \A g \in Guards :
    \A i \in 1..Len(guards[g].out) :
      \E code \in GuardCodes : IsErrorResponse(guards[g].out[i], 401, code)

C13_Witness ==
  \E g1, g2 \in Guards :
    /\ Len(guards[g1].out) = 1 /\ guards[g1].out[1].body.error_code = "token_expired"
    /\ Len(guards[g2].out) = 1 /\ guards[g2].out[1].body.error_code = "token_malformed"

-----------------------------------------------------------------------------
(* Claims about the token utilities, checked under SpecToken *)

\* C14: for a user with an id and an email, verifyToken of the token
\* generateToken has just returned succeeds, under the same secret and with no
\* time passed, and returns the user's id and email.  Stated for the calls
\* made under a configuration that passed validate().
C14_RoundTrip ==
  (last.op = "issue" /\ last.validated /\ last.user.kind = "object")
    => /\ last.issued.ok
       /\ last.verified.ok
       /\ last.verified.user.id = last.user.id
       /\ last.verified.user.email = last.user.email

\* the token was issued by generateToken under the secret in force at the call
SignedHere(k) == k.kind = "jwt" /\ k.sig = last.secret /\ k \in IssuedTokens(last.at)

\* the token carries a signature made with another secret
SignedElsewhere(k) == k.kind = "jwt" /\ k.sig # last.secret

\* C15: verifyToken fails with token_expired on a token issued under the
\* current secret whose lifetime has elapsed, and with token_invalid on a token
\* signed with another secret, expired or not.
C15_ExpiredOrInvalid ==
  last.op = "verify"
    => /\ (SignedHere(last.token) /\ last.token.body.claims.exp <= last.at)
            => ~last.verified.ok /\ last.verified.error.errorCode = "token_expired"
       /\ SignedElsewhere(last.token)
            => ~last.verified.ok /\ last.verified.error.errorCode = "token_invalid"

C15_Witness ==
  /\ last.op = "verify"
  /\ SignedElsewhere(last.token)
  /\ last.token \in IssuedTokens(last.at)
  /\ last.token.body.claims.exp <= last.at
  /\ Truthy(last.secret)
  /\ last.verified.error.errorCode = "token_invalid"

\* what jwt.verify did in the last call of verifyToken
LastLibraryVerify == JwtVerify(last.token, last.secret, last.at)

\* C16: verifyToken either returns a user object (a record with id and email,
\* never a nullish value) or throws a ZoogleAuthError
\* whose code is token_expired, exactly when the library threw
\* TokenExpiredError, or token_invalid, on every other failure.
C16_TotalClassification ==
  last.op = "verify"
    => IF last.verified.ok
       THEN /\ DOMAIN last.verified = {"ok", "user"}
            /\ {"id", "email"} \subseteq DOMAIN last.verified.user
       ELSE /\ DOMAIN last.verified = {"ok", "error"}
            /\ last.verified.error.cls = "ZoogleAuthError"
            /\ last.verified.error.errorCode \in {"token_expired", "token_invalid"}
            /\ last.verified.error.errorCode = "token_expired"
                 <=> (~LastLibraryVerify.ok /\ LastLibraryVerify.name = "TokenExpiredError")

C16_Witness ==
  /\ last.op = "verify"
  /\ ~LastLibraryVerify.ok
  /\ LastLibraryVerify.name = "SyntaxError"
  /\ last.verified.error.errorCode = "token_invalid"

-----------------------------------------------------------------------------
(* Claims about validate(), checked under SpecConfig *)

\* the required items, in the order validate() tests them
RequiredOrder ==
  <<"google.clientId", "google.clientSecret", "google.callbackURL", "jwt.secret", "findOrCreateUser">>

\* the value the configuration holds for a required item
Item(c, name) ==
  CASE name = "google.clientId" -> c.google.clientId
    [] name = "google.clientSecret" -> c.google.clientSecret
    [] name = "google.callbackURL" -> c.google.callbackURL
    [] name = "jwt.secret" -> c.jwt.secret
    [] name = "findOrCreateUser" -> c.findOrCreateUser

Missing(c) == {i \in 1..Len(RequiredOrder) : ~Truthy(Item(c, RequiredOrder[i]))}

NothingLoaded(c) == {1, 2, 4} \subseteq Missing(c)

\* C17: validate() throws the combined error, field "all", exactly when client
\* id, client secret and signing secret are all empty, whatever the callback
\* URL and findOrCreateUser are.
C17_CombinedError ==
  cfgResult # "none" => (cfgResult = "all" <=> NothingLoaded(config))

C17_Witness ==
  /\ cfgResult = "all"
  /\ Missing(config) = {1, 2, 4}

\* C18: when the combined case does not apply, validate() throws the error of
\* the first missing item in the order client id, client secret, callback URL,
\* signing secret, findOrCreateUser; with exactly one item missing the error
\* names that item.
C18_FirstMissing ==
  (cfgResult # "none" /\ ~NothingLoaded(config) /\ Missing(config) # {})
    => /\ cfgResult = RequiredOrder[CHOOSE i \in Missing(config) : \A j \in Missing(config) : i <= j]
       /\ \A i \in 1..Len(RequiredOrder) : Missing(config) = {i} => cfgResult = RequiredOrder[i]

C18_Witness ==
  /\ cfgResult = "google.callbackURL"
  /\ Missing(config) = {3, 4, 5}

C20_ShortSecretThrows ==
  (/\ cfgResult # "none"
   /\ Missing(config) = {}
   /\ Len(config.jwt.secret) < MinSecretLength)
    => cfgResult # "ok"

\* the options give every required item but findOrCreateUser
OthersGiven(o) ==
  /\ Has(o, "google") /\ Has(o, "jwt")
  /\ Truthy(o.google.clientId) /\ Truthy(o.google.clientSecret)
  /\ Truthy(o.google.callbackURL) /\ Truthy(o.jwt.secret)

\* C21: a configure() call whose findOrCreateUser is present but is a string,
\* the other required items given, throws a ZoogleConfigError.
C21_NotInvocableThrows ==
  [][\A o \in ValidateOptions :
       (/\ Configure(o)
        /\ OthersGiven(o)
        /\ Has(o, "findOrCreateUser") /\ o.findOrCreateUser = "not-a-function")
         => cfgError'.cls = "ZoogleConfigError"]_vars

\* C22: a configure() call whose findOrCreateUser is undefined, the other
\* required items given, throws the ZoogleConfigError of field
\* "findOrCreateUser", wherever it stands in a sequence of configure() calls.
C22_UndefinedThrows ==
  [][\A o \in ValidateOptions :
       (/\ Configure(o)
        /\ OthersGiven(o)
        /\ (Has(o, "findOrCreateUser") => o.findOrCreateUser = UNDEF))
         => (cfgError'.cls = "ZoogleConfigError" /\ cfgError'.field = "findOrCreateUser")]_vars

\* C23: configure() returns normally exactly when no required item of the
\* merged configuration is missing; otherwise it throws the ZoogleConfigError
\* that validate() threw, with its field, message and hint.
C23_ConfigureRethrows ==
  cfgResult # "none" =>
    /\ (cfgError = NoError) <=> (Missing(config) = {})
    /\ (cfgResult = "ok") <=> (cfgError = NoError)
    /\ cfgError # NoError =>
         /\ cfgError.cls = "ZoogleConfigError"
         /\ cfgError = ValidateThrows(config)
         /\ cfgError.field = cfgResult
         /\ cfgError.hint = ValidateHint(cfgResult)

C23_Witness ==
  /\ cfgError # NoError
  /\ cfgError.field = "google.callbackURL"
  /\ cfgError.hint = "Provide a callback URL"

-----------------------------------------------------------------------------
(* Further claims about GET /callback, checked under SpecFlow *)

\* C25: under a configuration that passed validate(), once findOrCreateUser
\* has returned a user, generateToken returns a token and the request does
\* not end in the catch clause at generateToken.
C25_IssuanceCannotFail ==
  \A r \in Reqs :
    LET q == reqs[r] IN
    (/\ q.pc = "done" /\ cfgResult = "ok"
     /\ q.user # NoUser /\ q.user.kind = "object")
      => /\ q.token # NoToken
         /\ q.failedAt # "generateToken"
         /\ \A i \in 1..Len(q.out) : ~IsErrorResponse(q.out[i], 500, "unknown_error")

\* C26: the error of a failed token exchange or profile fetch, which is the
\* error the error hook receives, is a ZoogleOAuthError with the upstream
\* status code and the provider's error string.
C26_ProviderError ==
  \A r \in Reqs :
    LET q == reqs[r] IN
    (q.pc = "done" /\ q.failedAt \in {"getTokens", "getUserInfo"})
      => /\ q.caught.cls = "ZoogleOAuthError"
         /\ {"statusCode", "googleError"} \subseteq DOMAIN q.caught
         /\ \A i \in 1..Len(q.out) : q.out[i].type = "onError" => q.out[i].error = q.caught

-----------------------------------------------------------------------------
(* Claims about the entry points served together, checked under SpecServe *)

\* C24: while no configure() call has been made, GET /login issues no
\* redirect, GET /callback makes no provider call, and the guard does not
\* answer with the code of an invalid token.
C24_FailsFastUnconfigured ==
  cfgResult = "none" =>
    /\ \A l \in Logins : \A i \in 1..Len(logins[l].out) : logins[l].out[i].type # "redirect"
    /\ \A r \in Reqs : reqs[r].calls = <<>>
    /\ \A g \in Guards : \A i \in 1..Len(guards[g].out) :
         guards[g].out[i].body.error_code # "token_invalid"

\* GET /callback run from its first statement to its last with nothing in
\* between: the code, how the two provider calls and findOrCreateUser settle,
\* the configuration c and the time t
RunAlone(code, o1, o2, o3, c, t) ==
  IF CodeMissing(code)
  THEN [IdleRequest EXCEPT !.pc = "done", !.code = code, !.out = <<MissingCodeResponse>>]
  ELSE
    LET q0 == [IdleRequest EXCEPT !.pc = "exchange", !.code = code, !.calls = <<"getTokens">>]
        tokens == GetTokens(o1)
    IN
    IF ~tokens.ok THEN RouteCatch(q0, "getTokens", tokens.error, c, "returns")
    ELSE
      LET q1 == [q0 EXCEPT !.pc = "profile", !.accessToken = AccessTokenOf(tokens.value),
                           !.calls = Append(@, "getUserInfo")]
          profile == GetUserInfo(o2)
      IN
      IF ~profile.ok THEN RouteCatch(q1, "getUserInfo", profile.error, c, "returns")
      ELSE
        LET q2 == CallFindOrCreateUser(q1, c, [kind |-> "pending"], "returns") IN
        IF q2.pc # "resolve" THEN q2
        ELSE IF o3.kind = "resolves"
        THEN Complete(q2, o3.user, c, t, "returns", "returns")
        ELSE RouteCatch([q2 EXCEPT !.thrown = o3.reason], "findOrCreateUser",
                        ZoogleDatabaseError(DatabaseErrorMessage, o3.reason), c, "returns")

-----------------------------------------------------------------------------
(* Claims about config.set(), checked under SpecSet *)

\* the section `after` holds the fields of `before`, each with the value the
\* options give it if they give one and with its stored value otherwise
Overlaid(before, given, after) ==
  /\ DOMAIN after = DOMAIN before \cup DOMAIN given
  /\ \A f \in DOMAIN after :
       after[f] = IF f \in DOMAIN given THEN given[f] ELSE before[f]

\* the callback `after` is the one supplied, or the stored one if none is
SuppliedOrKept(o, name, before, after) ==
  /\ after # before => (Has(o, name) /\ after = o[name])
  /\ ~Has(o, name) => after = before
  /\ (Has(o, name) /\ Truthy(o[name])) => after = o[name]

\* C27: after set(options), each field of the google and jwt sections has the
\* value the options supply for it, or its stored value when they supply
\* none; each callback is the one supplied, or the stored one when none is
\* supplied; whatever the values, the call returns and validates nothing.
C27_SetOverlays ==
  last.op = "set" =>
    /\ Overlaid(last.before.google,
                IF Has(last.options, "google") THEN last.options.google ELSE <<>>,
                config.google)
    /\ Overlaid(last.before.jwt,
                IF Has(last.options, "jwt") THEN last.options.jwt ELSE <<>>,
                config.jwt)
    /\ \A name \in {"findOrCreateUser", "onSuccess", "onError"} :
         SuppliedOrKept(last.options, name, last.before[name], config[name])
    /\ DOMAIN config = DOMAIN InitialConfig
    /\ cfgResult = "none" /\ cfgError = NoError

\* a set() call that supplied one field of a section and a nullish callback
\* over a configuration that held other fields and a callback
C27_Witness ==
  /\ last.op = "set"
  /\ Has(last.options, "google") /\ last.options.google = [clientId |-> "cid"]
  /\ last.before.google.callbackURL = "http://app/cb"
  /\ config.google.callbackURL = "http://app/cb"
  /\ Has(last.options, "onSuccess") /\ last.options.onSuccess = NULL
  /\ config.onSuccess = "function"
  /\ Has(last.options, "jwt") /\ last.options.jwt = [expiresIn |-> UNDEF]
  /\ config.jwt = [secret |-> "s1", expiresIn |-> UNDEF]

-----------------------------------------------------------------------------
(* Claims about GET /login and getAuthUrl(), checked under SpecLogin *)

\* the query string of getAuthUrl() under the credentials g, as URLSearchParams
\* writes it
AuthQuery(g) ==
  { <<"redirect_uri", UrlEncode(g.callbackURL)>>,
    <<"client_id", UrlEncode(g.clientId)>>,
    <<"access_type", "offline">>,
    <<"response_type", "code">>,
    <<"prompt", "consent">>,
    <<"scope", "https%3A%2F%2Fwww.googleapis.com%2Fauth%2Fuserinfo.profile+https%3A%2F%2Fwww.googleapis.com%2Fauth%2Fuserinfo.email">> }

\* C29: the URL getAuthUrl() returns is determined by the configuration: two
\* calls that read the same configuration return the same URL, whenever they
\* are made; the URL is Google's authorization endpoint with the configured
\* callbackURL and clientId and the fixed access_type, response_type, prompt
\* and scope, each once; and a call changes nothing but the response of its
\* request.
C29_AuthUrlPure ==
  /\ [](\A l \in Logins :
          logins[l].pc = "done" =>
            /\ Len(logins[l].out) = 1
            /\ logins[l].out[1].type = "redirect"
            /\ logins[l].out[1].url.base = "https://accounts.google.com/o/oauth2/v2/auth"
            /\ Len(logins[l].out[1].url.query) = 6
            /\ Range(logins[l].out[1].url.query) = AuthQuery(logins[l].seen)
            /\ \A k \in Logins :
                 (logins[k].pc = "done" /\ logins[k].seen = logins[l].seen)
                   => logins[k].out = logins[l].out)
  /\ [][logins' # logins =>
          UNCHANGED <<config, cfgResult, cfgError, now, reqs, guards, last>>]_vars

\* two logins at different times under the same complete credentials
C29_Witness ==
  /\ logins[1].pc = "done" /\ logins[2].pc = "done"
  /\ logins[1].seen = logins[2].seen
  /\ logins[1].seen.clientId = "cid" /\ logins[1].seen.callbackURL = "http://app/cb"
  /\ logins[1].at # logins[2].at
  /\ config.google # logins[1].seen

-----------------------------------------------------------------------------
(* A further claim about the token utilities, checked under SpecToken *)

\* the fields of a user record besides its id and email
ExtraFields(u) == DOMAIN u \ {"kind", "id", "email"}

\* C30: the claims generateToken signs are the user's id and email and the
\* two times jwt.sign adds, nothing else of the user; users with the same id
\* and email get the same token, and the identity verifyToken recovers from
\* it has none of the user's other fields.
C30_ClaimsFromIdAndEmail ==
  /\ (last.op = "issue" /\ last.issued.ok) =>
       /\ DOMAIN last.issued.token.body.claims = {"id", "email", "iat", "exp"}
       /\ last.issued.token.body.claims.id = last.user.id
       /\ last.issued.token.body.claims.email = last.user.email
       /\ last.verified.ok =>
            /\ ExtraFields(last.user) \cap DOMAIN last.verified.user = {}
            /\ DOMAIN last.verified.user = {"id", "email", "iat", "exp"}
  /\ \A u1, u2 \in {u \in Users : u.kind = "object"} :
       (u1.id = u2.id /\ u1.email = u2.email) =>
         LET a == GenerateToken(u1, config, now)
             b == GenerateToken(u2, config, now)
         IN /\ a = b
            /\ a.ok => VerifyToken(a.token, config, now) = VerifyToken(b.token, config, now)

\* a user with a role was issued a token, and the identity recovered has none
C30_Witness ==
  /\ last.op = "issue"
  /\ last.user.kind = "object" /\ last.user.role = "admin"
  /\ last.issued.ok /\ last.verified.ok
  /\ last.verified.user.id = "u1"
  /\ "role" \notin DOMAIN last.verified.user

-----------------------------------------------------------------------------
(* Further claims about the guard, checked under SpecGuard *)

\* times t1 and t2 stand alike to the token's expiry and to its notBefore
SameSide(k, t1, t2) ==
  (k.kind = "jwt" /\ k.body.type = "object") =>
    /\ Has(k.body.claims, "exp") => (t1 < k.body.claims.exp <=> t2 < k.body.claims.exp)
    /\ Has(k.body.claims, "nbf") => (t1 < k.body.claims.nbf <=> t2 < k.body.claims.nbf)

\* C31: two guarded requests that present the same token under the same
\* secret, at times that stand alike to the token's expiry, get the same
\* verdict from verifyToken, whatever was verified or accepted in between: a
\* token accepted once is accepted again until it expires.
C31_Stateless ==
  \A g1, g2 \in Guards :
    LET q1 == guards[g1]
        q2 == guards[g2]
    IN
    (/\ g1 < g2
     /\ q1.pc = "done" /\ q2.pc = "done"
     /\ BearerShape(q1.header.text) /\ BearerShape(q2.header.text)
     /\ Len(q1.header.text) = 3 /\ Len(q2.header.text) = 3
     /\ q1.header.text[3] = q2.header.text[3]
     /\ q1.header.text[3].t = "tok"
     /\ SameSide(q1.header.text[3].tok, q1.at, q2.at))
      => /\ q1.verifyCalls = 1 /\ q2.verifyCalls = 1
         /\ q1.verifyError = q2.verifyError
         /\ q1.user = q2.user

\* the same token accepted twice before its expiry
C31_Witness ==
  /\ guards[1].pc = "done" /\ guards[2].pc = "done"
  /\ guards[1].header = guards[2].header
  /\ guards[1].verifyCalls = 1
  /\ guards[1].verifyError = NoError /\ guards[2].verifyError = NoError
  /\ guards[1].user # NoUser /\ guards[1].user = guards[2].user

-----------------------------------------------------------------------------
(* A claim about the lifetime of tokens, checked under SpecToken *)

\* the lifetime generateToken is to sign with under configuration c
ConfiguredOrDefault(c) ==
  IF c.jwt.expiresIn \in {UNDEF, NULL, ""} THEN "7d" ELSE c.jwt.expiresIn

\* C32: whatever configure() calls were made, a token generateToken returns
\* expires the configured lifetime after its issue when jwt.expiresIn holds a
\* value, and seven days after when it holds undefined or the empty string;
\* with a secret set, an absent lifetime never keeps a token from being signed.
C32_DefinedLifetime ==
  /\ \A u \in {x \in Users : x.kind = "object"} :
       LET g == GenerateToken(u, config, now) IN
       /\ g.ok => /\ {"iat", "exp"} \subseteq DOMAIN g.token.body.claims
                  /\ g.token.body.claims.exp
                       = g.token.body.claims.iat + Lifetime(ConfiguredOrDefault(config))
       /\ (Truthy(config.jwt.secret) /\ ValidSpan(ConfiguredOrDefault(config))) => g.ok
       /\ (Truthy(config.jwt.secret) /\ ~Truthy(config.jwt.expiresIn)) => g.ok
  /\ (last.op = "issue" /\ last.issued.ok) =>
       last.issued.token.body.claims.exp - last.issued.token.body.claims.iat
         \in {Lifetime("1h"), Lifetime("7d")}

\* a token issued after a configure() call that supplied expiresIn as undefined
C32_Witness ==
  /\ config.jwt.expiresIn = UNDEF
  /\ last.op = "issue" /\ last.at = now /\ last.secret = config.jwt.secret
  /\ last.issued.ok
  /\ last.issued.token.body.claims.exp = last.at + Lifetime("7d")

-----------------------------------------------------------------------------
(* Further claims about GET /callback, checked under SpecFlow *)

\* C33: the profile fetch is called only with an access token that the
\* exchange returned.
C33_ProfileFetchHasToken ==
  \A r \in Reqs :
    "getUserInfo" \in Range(reqs[r].calls) => Truthy(reqs[r].accessToken)

-----------------------------------------------------------------------------
(* The outcomes of the guard, checked under SpecGuard *)

\* C36: every guarded request ends in exactly one of two ways: next was called
\* once, with an identity attached and no response written, or next was not
\* called and one 401 response was written.
C36_NextOrReject ==
  \A g \in Guards :
    LET q == guards[g] IN
    q.pc = "done" =>
      \/ q.nextCalls = 1 /\ q.user # NoUser /\ q.out = <<>>
      \/ /\ q.nextCalls = 0 /\ q.user = NoUser
         /\ Len(q.out) = 1 /\ q.out[1].type = "response" /\ q.out[1].status = 401

-----------------------------------------------------------------------------
(* Where tokens go in GET /callback, checked under SpecFlow *)

\* the tokens an entry of a request's output carries
Carried(e) ==
  IF e.type = "response"
  THEN IF Has(e.body, "token") THEN {e.body.token} ELSE {}
  ELSE IF Has(e, "token") THEN {e.token} ELSE {}

\* C35: in every request, generateToken is called, and a token stands in a
\* response or is handed to a hook, only if the code was present and the
\* exchange, the profile fetch and findOrCreateUser succeeded in that request;
\* the token is then the one generateToken returned, in the 200 response or
\* the call of onSuccess and nowhere else.
C35_TokenOnlyOnSuccess ==
  \A r \in Reqs :
    LET q == reqs[r] IN
    /\ ("generateToken" \in Range(q.calls) \/ q.token # NoToken)
         => /\ ~CodeMissing(q.code)
            /\ IsPrefix(<<"getTokens", "getUserInfo", "findOrCreateUser", "generateToken">>, q.calls)
            /\ q.thrown = NoReason
            /\ q.user # NoUser
            /\ q.failedAt \notin {"getTokens", "getUserInfo", "findOrCreateUser"}
    /\ \A i \in 1..Len(q.out) :
         Carried(q.out[i]) # {}
           => /\ q.token # NoToken
              /\ Carried(q.out[i]) = {q.token}
              /\ \/ q.out[i].type = "onSuccess"
                 \/ q.out[i].type = "response" /\ q.out[i].status = 200

\* a token was handed to onSuccess, which threw
C35_Witness ==
  /\ reqs[1].pc = "done"
  /\ reqs[1].failedAt = "onSuccess"
  /\ reqs[1].token # NoToken
  /\ Carried(reqs[1].out[1]) = {reqs[1].token}

-----------------------------------------------------------------------------
(* A further claim about configure(), checked under SpecConfig *)

\* C34: a configure() call that throws leaves the stored configuration as it
\* was before the call.
C34_FailedConfigureKeeps ==
  [][cfgError' # NoError => config' = config]_vars

-----------------------------------------------------------------------------
(* A claim about configure() during requests, checked under SpecReconfigure *)

RECURSIVE ConfigClosure(_)
\* the configurations a sequence of configure() calls can store
ConfigClosure(S) ==
  LET T == S \cup {ConfigSet(c, o) : c \in S, o \in ReconfigureOptions} IN
  IF T = S THEN S ELSE ConfigClosure(T)

StoredConfigs == ConfigClosure({InitialConfig})

\* request r ended as the handler run in one piece under one configuration
UnderOneConfiguration(r) ==
  \E c \in StoredConfigs, code \in ServeCodes, o1 \in ServeTokenResponses,
     o2 \in UserinfoResponses, o3 \in ServeSettles :
    reqs[r] = RunAlone(code, o1, o2, o3, c, now)

\* C37 as stated: every finished request, also one that was suspended at an
\* await while configure() ran, ended as under one configuration.
C37_OneConfiguration ==
  \A r \in Reqs : reqs[r].pc = "done" => UnderOneConfiguration(r)

\* C37, amended: a finished request during which no configure() call ran
\* ended as under one configuration: credentials, findOrCreateUser, secret,
\* lifetime and hooks were all read from the same stored configuration.
C37_OneConfigurationUnlessReconfigured ==
  \A r \in Reqs :
    (reqs[r].pc = "done" /\ (last.op = "configure" => r \notin last.touched))
      => UnderOneConfiguration(r)

\* a request that was issued a token finished untouched, while configure()
\* ran during the other one
C37_Witness ==
  /\ last.op = "configure" /\ last.touched = {2}
  /\ reqs[1].pc = "done" /\ reqs[1].token # NoToken
  /\ reqs[2].pc = "done"
  /\ config.jwt.secret # reqs[1].token.sig

-----------------------------------------------------------------------------
(* The configuration as the handlers leave it, checked under SpecServe *)

\* C38: a step of GET /login, GET /callback or the guard, with the calls of
\* getAuthUrl, getTokens, getUserInfo, generateToken and verifyToken it makes,
\* leaves every field of the configuration as it was; the configuration
\* changes only in a configure() call, which changes no request.
C38_HandlersKeepConfig ==
  [][/\ (reqs' # reqs \/ guards' # guards \/ logins' # logins)
          => (config' = config /\ cfgResult' = cfgResult /\ cfgError' = cfgError)
     /\ config' # config
          => /\ \E o \in ServeOptions : config' = ConfigSet(config, o)
             /\ reqs' = reqs /\ guards' = guards /\ logins' = logins]_vars

\* every request of every kind has been served under the configuration that
\* configure() stored
C38_Witness ==
  /\ cfgResult = "ok"
  /\ \A r \in Reqs : reqs[r].pc = "done"
  /\ \A g \in Guards : guards[g].pc = "done"
  /\ \A l \in Logins : logins[l].pc = "done"
  /\ \E r \in Reqs : reqs[r].token # NoToken
  /\ \E g \in Guards : guards[g].nextCalls = 1
  /\ \E o \in ServeOptions : config = ConfigSet(InitialConfig, o)

-----------------------------------------------------------------------------
(* How a GET /callback request ends, checked under SpecFlow *)

\* the entry is one of the five terminal outcomes of the callback route
TerminalOutcome(e) ==
  \/ e = MissingCodeResponse
  \/ e.type = "response" /\ e.status \in {200, 500}
  \/ e.type \in {"onSuccess", "onError"}

\* C39: a request whose external calls have all settled has reached exactly
\* one terminal outcome: the 400 missing_code response, the default 200
\* response, the success hook, the default 500 response or the error hook;
\* also when a hook failed.
C39_OneTerminalOutcome ==
  \A r \in Reqs :
    reqs[r].pc = "done" =>
      /\ Len(reqs[r].out) = 1
      /\ TerminalOutcome(reqs[r].out[1])

====
